---- MODULE Spec2Model ----
(***************************************************************************)
(* search_code of src/experiment_search.py (the copy in                    *)
(* src/experiment_fork_search.py is the same loop without the progress     *)
(* prints): a paginated search against GET /search/code that accumulates   *)
(* the items of each page until a stopping condition is met.               *)
(*                                                                         *)
(* The remote service is the environment: every request is answered by an  *)
(* arbitrary status and body, or by a transport failure.                   *)
(***************************************************************************)
EXTENDS Integers, Sequences, FiniteSets, TLC

(* ---------------------------------------------------------------- bounds *)

\* At most this many page requests are explored in one call.
MaxRequests == 3

(* ------------------------------------------------------ program constants *)

\* per_page = 100  # Max allowed by GitHub
per_page == 100

\* time.sleep(2)
SearchDelay == 2

(* ------------------------------------------------------------ the inputs *)

\* query: opaque to the loop, passed through to the service.
Queries ==
    {"minimumLimaVersion extension:yml",
     "minimumLimaVersion extension:yml repo:lima-vm/lima"}

\* max_results: non-positive values, a value below one page, values above.
MaxResultsInputs ==
    {-1, 0, 1, 2, 3, per_page \div 2, 2 * per_page + per_page \div 2}

\* response.status_code values the service answers with.
StatusCodes == {200, 403, 404, 422, 500}

\* Number of items the service puts on a page: empty, short, full and one
\* more than was asked for.
PageLens == {0, 1, per_page \div 2, per_page, per_page + 1}

\* total_count values the service advertises.
TotalCounts == {0, 1, per_page + per_page \div 2, 2 * per_page + per_page \div 2}

(* --------------------------------------------------------------- helpers *)

\* dict.get(key, default)
get(d, key, default) == IF key \in DOMAIN d THEN d[key] ELSE default

\* The records the service holds are numbered 1, 2, ...; page p of the data
\* set starts after record (p - 1) * per_page.  A page of n items.
PageItems(p, n) == [i \in 1..n |-> (p - 1) * per_page + i]

\* A JSON body: a dict that may or may not carry "items" and "total_count".
Body(hasItems, items, hasTotal, total) ==
    [k \in ((IF hasItems THEN {"items"} ELSE {})
            \cup (IF hasTotal THEN {"total_count"} ELSE {}))
       |-> IF k = "items" THEN items ELSE total]

EmptyBody == Body(FALSE, <<>>, FALSE, 0)

\* What the service may answer to the request for page p: an unsuccessful
\* status (whose body the loop must not read, with or without items), or a body whose items are those of page p of the data set or, again,
\* those of page 1 (overlapping pages), or a body without "items".
Responses(p) ==
    {[status_code |-> s, data |-> b] :
        s \in StatusCodes \ {200},
        b \in {EmptyBody, Body(TRUE, PageItems(p, 1), FALSE, 0)}}
    \cup {[status_code |-> 200, data |-> Body(TRUE, PageItems(sp, n), ht, t)] :
            sp \in {1, p}, n \in PageLens, ht \in BOOLEAN, t \in TotalCounts}
    \cup {[status_code |-> 200, data |-> Body(FALSE, <<>>, ht, t)] :
            ht \in BOOLEAN, t \in TotalCounts}

(* ----------------------------------------------------------------- state *)

VARIABLES
    query,        \* argument of the call
    max_results,  \* argument of the call
    results,      \* the accumulated items
    page,         \* the page cursor
    pc,           \* "while": at the loop test; "get": blocked in requests.get;
                  \* "sleep": at time.sleep; "done": the call has ended
    response,     \* the last response received
    outcome,      \* how the call ended: nothing yet, a returned list, an error
    trace,        \* history: the requests issued and the delays taken, in order
    received      \* history: the responses received, in order

searchVars ==
    <<query, max_results, results, page, pc, response, outcome, trace, received>>

\* The arguments and locals of list_forks (src/experiment_fork_search.py).
VARIABLES
    owner,          \* argument of the call
    repo,           \* argument of the call
    max_forks,      \* argument of the call
    forks,          \* the accumulated forks
    forks_page,     \* the page cursor of list_forks
    forks_pc,       \* position in list_forks, as pc; "idle" when not called
    forks_outcome,  \* how list_forks ended
    forks_trace     \* history: the requests and delays of list_forks, in order

forksVars ==
    <<owner, repo, max_forks, forks, forks_page, forks_pc, forks_outcome,
      forks_trace>>

vars == <<searchVars, forksVars>>

NoResponse == [status_code |-> 0, data |-> EmptyBody]

Running == [kind |-> "none"]
NotCalled == [kind |-> "not called"]
Returned(value) == [kind |-> "return", value |-> value]
Raised(error) == [kind |-> "raise", error |-> error]

\* list_forks is not called in this run.
ForksIdle ==
    /\ owner = ""
    /\ repo = ""
    /\ max_forks = 0
    /\ forks = <<>>
    /\ forks_page = 1
    /\ forks_pc = "idle"
    /\ forks_outcome = NotCalled
    /\ forks_trace = <<>>

\* search_code is not called in this run.
SearchIdle ==
    /\ query = ""
    /\ max_results = 0
    /\ results = <<>>
    /\ page = 1
    /\ pc = "idle"
    /\ response = NoResponse
    /\ outcome = NotCalled
    /\ trace = <<>>
    /\ received = <<>>

Init ==
    /\ ForksIdle
    /\ query \in Queries
    /\ max_results \in MaxResultsInputs
    /\ results = <<>>
    /\ page = 1
    /\ pc = "while"
    /\ response = NoResponse
    /\ outcome = Running
    /\ trace = <<>>
    /\ received = <<>>

(* ------------------------------------------------- the conditions of the loop *)

\* Variant: the test admits the limit itself (<= for <).
while_cond_inclusive == Len(results) <= max_results

\* Variant: the test is an inequality (!= for <).
while_cond_not_equal == Len(results) # max_results

\* Variant: the loop is left by break only (while True).
while_cond_true == TRUE

\* while len(results) < max_results:
while_cond == Len(results) < max_results

\* Variant: only the throttled status ends the loop quietly.
break_status_403_only(status_code) == status_code = 403

\* if response.status_code == 403: break / elif response.status_code == 422: break
break_status(status_code) == status_code = 403 \/ status_code = 422

\* Variant: only server errors raise.
raise_for_status_5xx_only(status_code) == 500 <= status_code /\ status_code < 600

\* response.raise_for_status(): HTTPError for a 4xx or 5xx status.
raise_for_status(status_code) == 400 <= status_code /\ status_code < 600

\* Variant: the exhaustion check is missing.
not_items_never(items) == FALSE

\* if not items:
not_items(items) == Len(items) = 0

\* Variant: items already accumulated are not appended again.
extend_dedup(list, items) ==
    list \o SelectSeq(items, LAMBDA x : \A i \in 1..Len(list) : list[i] # x)

\* Variant: the page replaces the accumulated list (= for extend).
extend_replace(list, items) == items

\* Variant: the accumulated list is cut to max_results.
extend_truncated(list, items) ==
    LET all == list \o items
    IN  IF Len(all) > max_results /\ max_results > 0
        THEN SubSeq(all, 1, max_results) ELSE all

\* results.extend(items)
extend(list, items) == list \o items

\* Variant: the advertised total is not consulted.
last_page_limit_only(list, total_count, limit) == Len(list) >= limit

\* Variant: the caller's limit is not consulted.
last_page_total_only(list, total_count, limit) == Len(list) >= total_count

\* if len(results) >= total_count or len(results) >= max_results:
last_page(list, total_count, limit) ==
    Len(list) >= total_count \/ Len(list) >= limit

\* Variant: the cursor is not advanced (the same page is asked for again).
next_page_same(p) == p

\* page += 1
next_page(p) == p + 1

(* ---------------------------------------------------------------- history *)

GetEvent(q, n, p) ==
    [op |-> "get", url |-> "/search/code", q |-> q, per_page |-> n, page |-> p]
SleepEvent(secs) == [op |-> "sleep", secs |-> secs]

IsGet(e) == e.op = "get"
IsSleep(e) == e.op = "sleep"

NumRequests == Len(SelectSeq(trace, IsGet))
NumDelays == Len(SelectSeq(trace, IsSleep))

(* ---------------------------------------------------------------- actions *)

\* The loop test passes and the request for the current page is sent.
Request ==
    /\ pc = "while"
    /\ while_cond
    /\ NumRequests < MaxRequests
    /\ trace' = Append(trace, GetEvent(query, per_page, page))
    /\ pc' = "get"
    /\ UNCHANGED <<query, max_results, results, page, response, outcome, received>>
    /\ UNCHANGED forksVars

\* The loop test fails: return results.
LoopExit ==
    /\ pc = "while"
    /\ ~while_cond
    /\ pc' = "done"
    /\ outcome' = Returned(results)
    /\ UNCHANGED <<query, max_results, results, page, response, trace, received>>
    /\ UNCHANGED forksVars

\* requests.get returns resp; the rest of the loop body runs up to the
\* break, the raise, or the sleep.
HandleResponse(resp) ==
    /\ response' = resp
    /\ received' = Append(received, resp)
    /\ IF break_status(resp.status_code)
       THEN /\ pc' = "done"
            /\ outcome' = Returned(results)
            /\ UNCHANGED <<results, page>>
       ELSE IF raise_for_status(resp.status_code)
       THEN /\ pc' = "done"
            /\ outcome' = Raised("HTTPError")
            /\ UNCHANGED <<results, page>>
       ELSE LET data == resp.data
                items == get(data, "items", <<>>)
            IN  IF not_items(items)
                THEN /\ pc' = "done"
                     /\ outcome' = Returned(results)
                     /\ UNCHANGED <<results, page>>
                ELSE LET extended == extend(results, items)
                         total_count == get(data, "total_count", 0)
                     IN  /\ results' = extended
                         /\ IF last_page(extended, total_count, max_results)
                            THEN /\ pc' = "done"
                                 /\ outcome' = Returned(extended)
                                 /\ page' = page
                            ELSE /\ page' = next_page(page)
                                 /\ pc' = "sleep"
                                 /\ outcome' = outcome
    /\ UNCHANGED <<query, max_results, trace>>
    /\ UNCHANGED forksVars

\* The service answers the outstanding request.
Respond ==
    /\ pc = "get"
    /\ \E resp \in Responses(page) : HandleResponse(resp)

\* requests.get fails in the transport: the exception leaves search_code.
ConnectionError ==
    /\ pc = "get"
    /\ pc' = "done"
    /\ outcome' = Raised("ConnectionError")
    /\ UNCHANGED <<query, max_results, results, page, response, trace, received>>
    /\ UNCHANGED forksVars

\* time.sleep(2), then back to the loop test.
Sleep ==
    /\ pc = "sleep"
    /\ trace' = Append(trace, SleepEvent(SearchDelay))
    /\ pc' = "while"
    /\ UNCHANGED <<query, max_results, results, page, response, outcome, received>>
    /\ UNCHANGED forksVars

Next ==
    \/ Request
    \/ LoopExit
    \/ Respond
    \/ ConnectionError
    \/ Sleep

Spec == Init /\ [][Next]_vars

(***************************************************************************)
(* list_forks of src/experiment_fork_search.py: the pages of               *)
(* GET /repos/{owner}/{repo}/forks are accumulated until a page is empty   *)
(* or short, or max_forks is reached.                                      *)
(***************************************************************************)

\* per_page = 100 (list_forks)
forks_per_page == 100

\* time.sleep(0.5), in milliseconds
ForksDelayMillis == 500

\* owner, repo: list_forks('lima-vm', 'lima', ...)
Owners == {"lima-vm"}
Repos == {"lima"}

\* max_forks: non-positive values, values below a page, one page, and above.
MaxForksInputs ==
    {-1, 0, 1, 30, forks_per_page, forks_per_page + forks_per_page \div 2,
     2 * forks_per_page + forks_per_page \div 2}

\* What the service may answer to the request for page p of the forks: an
\* unsuccessful status, or a list holding the forks of page p or, again,
\* those of page 1.
ForksResponses(p) ==
    {[status_code |-> s, items |-> <<>>] : s \in StatusCodes \ {200}}
    \cup {[status_code |-> 200, items |-> PageItems(sp, n)] :
            sp \in {1, p}, n \in PageLens}

ForksInit ==
    /\ SearchIdle
    /\ owner \in Owners
    /\ repo \in Repos
    /\ max_forks \in MaxForksInputs
    /\ forks = <<>>
    /\ forks_page = 1
    /\ forks_pc = "while"
    /\ forks_outcome = Running
    /\ forks_trace = <<>>

\* while len(forks) < max_forks:
forks_while_cond == Len(forks) < max_forks

\* if len(items) < per_page:
short_page(items) == Len(items) < forks_per_page

ForksGetEvent(o, r, n, p) ==
    [op |-> "get", url |-> <<"/repos", o, r, "forks">>, per_page |-> n,
     page |-> p, sort |-> "stargazers"]
ForksSleepEvent(millis) == [op |-> "sleep", millis |-> millis]

NumForksRequests == Len(SelectSeq(forks_trace, IsGet))
NumForksDelays == Len(SelectSeq(forks_trace, IsSleep))

\* The loop test passes and the request for the current page is sent.
ForksRequest ==
    /\ forks_pc = "while"
    /\ forks_while_cond
    /\ NumForksRequests < MaxRequests
    /\ forks_trace' =
           Append(forks_trace, ForksGetEvent(owner, repo, forks_per_page, forks_page))
    /\ forks_pc' = "get"
    /\ UNCHANGED <<owner, repo, max_forks, forks, forks_page, forks_outcome>>
    /\ UNCHANGED searchVars

\* The loop test fails: return forks.
ForksLoopExit ==
    /\ forks_pc = "while"
    /\ ~forks_while_cond
    /\ forks_pc' = "done"
    /\ forks_outcome' = Returned(forks)
    /\ UNCHANGED <<owner, repo, max_forks, forks, forks_page, forks_trace>>
    /\ UNCHANGED searchVars

\* requests.get returns resp; the rest of the loop body runs up to the
\* raise, the break, or the sleep.
ForksHandleResponse(resp) ==
    /\ IF raise_for_status(resp.status_code)
       THEN /\ forks_pc' = "done"
            /\ forks_outcome' = Raised("HTTPError")
            /\ UNCHANGED <<forks, forks_page>>
       ELSE LET items == resp.items
            IN  IF not_items(items)
                THEN /\ forks_pc' = "done"
                     /\ forks_outcome' = Returned(forks)
                     /\ UNCHANGED <<forks, forks_page>>
                ELSE LET extended == extend(forks, items)
                     IN  /\ forks' = extended
                         /\ IF short_page(items)
                            THEN /\ forks_pc' = "done"
                                 /\ forks_outcome' = Returned(extended)
                                 /\ forks_page' = forks_page
                            ELSE /\ forks_page' = next_page(forks_page)
                                 /\ forks_pc' = "sleep"
                                 /\ forks_outcome' = forks_outcome
    /\ UNCHANGED <<owner, repo, max_forks, forks_trace>>
    /\ UNCHANGED searchVars

\* The service answers the outstanding request.
ForksRespond ==
    /\ forks_pc = "get"
    /\ \E resp \in ForksResponses(forks_page) : ForksHandleResponse(resp)

\* requests.get fails in the transport: the exception leaves list_forks.
ForksConnectionError ==
    /\ forks_pc = "get"
    /\ forks_pc' = "done"
    /\ forks_outcome' = Raised("ConnectionError")
    /\ UNCHANGED <<owner, repo, max_forks, forks, forks_page, forks_trace>>
    /\ UNCHANGED searchVars

\* time.sleep(0.5), then back to the loop test.
ForksSleep ==
    /\ forks_pc = "sleep"
    /\ forks_trace' = Append(forks_trace, ForksSleepEvent(ForksDelayMillis))
    /\ forks_pc' = "while"
    /\ UNCHANGED <<owner, repo, max_forks, forks, forks_page, forks_outcome>>
    /\ UNCHANGED searchVars

ForksNext ==
    \/ ForksRequest
    \/ ForksLoopExit
    \/ ForksRespond
    \/ ForksConnectionError
    \/ ForksSleep

ForksSpec == ForksInit /\ [][ForksNext]_vars

(* ------------------------------------------- the history, read independently *)

Last(seq) == seq[Len(seq)]

\* The items of a successfully received page (status 200); none otherwise.
OkItems(r) ==
    IF r.status_code = 200 /\ "items" \in DOMAIN r.data THEN r.data.items ELSE <<>>

\* The items of the first k responses, in the order received.
RECURSIVE Collected(_)
Collected(k) == IF k = 0 THEN <<>> ELSE Collected(k - 1) \o OkItems(received[k])

IsExit == pc = "done"
HasReturned == pc = "done" /\ outcome.kind = "return"
HasRaised == pc = "done" /\ outcome.kind = "raise"

\* The last response received carries one of these statuses.
LastStatusIn(S) == received # <<>> /\ Last(received).status_code \in S

(* ------------------------------------------------------------------ C1 *)

\* C1: when the request for page k is answered 403 or 422, the call has ended
\* without an error, no request follows the k-th, and the value returned is
\* exactly the items of pages 1..k-1 (empty for k = 1).
C1_PartialOnThrottleOrReject ==
    LastStatusIn({403, 422}) =>
        /\ HasReturned
        /\ outcome.value = Collected(Len(received) - 1)
        /\ NumRequests = Len(received)
        /\ Last(trace).op = "get"

\* Page 1 delivered a full page, page 2 was answered 422.
C1_Witness ==
    /\ Len(received) = 2
    /\ received[2].status_code = 422
    /\ HasReturned
    /\ Len(outcome.value) = per_page

(* ------------------------------------------------------------------ C2 *)

\* C2: when a page is answered by an unsuccessful status other than 403 and
\* 422, the call has ended by raising: nothing is returned, and neither a
\* request nor a delay follows the failed request.
C2_FatalPropagates ==
    LastStatusIn(StatusCodes \ {200, 403, 422}) =>
        /\ HasRaised
        /\ outcome = Raised("HTTPError")
        /\ NumRequests = Len(received)
        /\ Last(trace).op = "get"

\* Page 1 delivered items, page 2 was answered 500: the items are lost.
C2_Witness ==
    /\ Len(received) = 2
    /\ received[2].status_code = 500
    /\ Len(results) = per_page
    /\ HasRaised

(* ------------------------------------------------------------------ C3 *)

\* C3: for max_results <= 0 nothing is ever requested, received or slept, the
\* loop test fails at once, and the call returns the empty list.
C3_NonPositiveLimit ==
    max_results <= 0 =>
        /\ trace = <<>>
        /\ received = <<>>
        /\ pc \in {"while", "done"}
        /\ (pc = "while" => ~ENABLED Request /\ ENABLED LoopExit)
        /\ (pc = "done" => outcome = Returned(<<>>))

C3_Witness ==
    /\ max_results <= 0
    /\ HasReturned
    /\ outcome.value = <<>>
    /\ NumRequests = 0

(* ------------------------------------------------------------------ C4 *)

\* C4: every step that issues a request starts in a state with fewer than
\* max_results accumulated items, and from a state with at least max_results
\* items no step issues a request (and the count does not fall back).
C4_NoRequestBeyondLimit ==
    [][/\ (NumRequests' # NumRequests =>
              Len(results) < max_results /\ NumRequests' = NumRequests + 1)
       /\ (Len(results) >= max_results =>
              NumRequests' = NumRequests /\ Len(results') >= max_results)]_vars

\* Three requests were needed and the third reached the limit.
C4_Witness ==
    /\ max_results > 0
    /\ NumRequests = 3
    /\ IsExit
    /\ Len(results) >= max_results

(* ------------------------------------------------------------------ C5 *)

\* C5: the accumulated list is at every moment, and the returned list at the
\* end, the concatenation of the items of the successfully received pages in
\* the order of the requests, each page's items in the order received:
\* nothing dropped, reordered, changed or de-duplicated.
C5_ReturnsConcatenation ==
    /\ results = Collected(Len(received))
    /\ (HasReturned => outcome.value = Collected(Len(received)))

\* Three pages were received and some record was delivered twice.
C5_Witness ==
    /\ HasReturned
    /\ Len(received) = 3
    /\ \E i, j \in 1..Len(outcome.value) : i < j /\ outcome.value[i] = outcome.value[j]

(* ------------------------------------------------------------------ C6 *)

\* The number of items on the first k successfully received pages.
RECURSIVE ReceivedCount(_)
ReceivedCount(k) ==
    IF k = 0 THEN 0 ELSE ReceivedCount(k - 1) + Len(OkItems(received[k]))

\* No page received so far holds more than n items.
AllPagesWithin(n) == \A k \in 1..Len(received) : Len(OkItems(received[k])) <= n

\* C6: the returned list is not cut to max_results: it holds every item of
\* every page received, the last page whole; when no page holds more than
\* per_page items and max_results > 0 it is shorter than max_results +
\* per_page; max_results = 50 against a full first page returns that page.
C6_OvershootBelowOnePage ==
    HasReturned =>
        /\ Len(outcome.value) = ReceivedCount(Len(received))
        /\ (max_results > 0 /\ AllPagesWithin(per_page) =>
               Len(outcome.value) < max_results + per_page)
        /\ ((max_results = 50 /\ received # <<>>
                /\ Len(OkItems(received[1])) = 100) =>
               (outcome.value = OkItems(received[1]) /\ NumRequests = 1))

\* max_results = 50, one request, 100 items returned.
C6_Witness ==
    /\ HasReturned
    /\ max_results = 50
    /\ NumRequests = 1
    /\ Len(outcome.value) = 100

(* ------------------------------------------------------------------ C7 *)

\* The last response is a successful one with no items (empty or absent).
LastIsEmptyPage ==
    /\ LastStatusIn({200})
    /\ Len(OkItems(Last(received))) = 0

\* C7: a successful response without items ends the call at once: what was
\* accumulated before it is returned unchanged and no request follows; an
\* empty first page gives the empty list after exactly one request.
C7_EmptyPageEnds ==
    LastIsEmptyPage =>
        /\ HasReturned
        /\ outcome.value = Collected(Len(received) - 1)
        /\ results = outcome.value
        /\ NumRequests = Len(received)
        /\ Last(trace).op = "get"
        /\ (Len(received) = 1 => outcome.value = <<>> /\ NumRequests = 1)

\* The first page is empty although it advertises total_count = 250.
C7_Witness ==
    /\ Len(received) = 1
    /\ LastIsEmptyPage
    /\ "total_count" \in DOMAIN received[1].data
    /\ received[1].data.total_count = 250
    /\ max_results = 250
    /\ HasReturned
    /\ outcome.value = <<>>

(* ------------------------------------------------------------------ C8 *)

Min(a, b) == IF a < b THEN a ELSE b
Max(a, b) == IF a > b THEN a ELSE b
Ceil(n, d) == (n + d - 1) \div d

\* Response r is what a service holding N records, paged by per_page and
\* advertising total_count = N, answers to the request for page k.
WellBehavedPage(r, k, N) ==
    /\ r.status_code = 200
    /\ DOMAIN r.data = {"items", "total_count"}
    /\ r.data.total_count = N
    /\ r.data.items = PageItems(k, Max(0, Min(per_page, N - (k - 1) * per_page)))

WellBehaved(N) ==
    \A k \in 1..Len(received) : WellBehavedPage(received[k], k, N)

\* C8: against a service holding N >= 1 records in consecutive pages of
\* per_page items that advertises total_count = N, a call with max_results >=
\* N never issues more than ceil(N / per_page) requests and returns exactly
\* the N records after exactly that many requests.
C8_ExhaustionByTotalCount ==
    \A N \in TotalCounts :
        (N >= 1 /\ max_results >= N /\ WellBehaved(N)) =>
            /\ NumRequests <= Ceil(N, per_page)
            /\ (HasReturned =>
                   /\ outcome.value = PageItems(1, N)
                   /\ NumRequests = Ceil(N, per_page))

\* 250 records served as 100 + 100 + 50.
C8_Witness ==
    /\ max_results = 250
    /\ WellBehaved(250)
    /\ HasReturned
    /\ NumRequests = 3
    /\ Len(outcome.value) = 250

(* ------------------------------------------------------------------ C9 *)

\* Every response so far was successful and carried no total_count.
AllLackTotal ==
    /\ received # <<>>
    /\ \A k \in 1..Len(received) :
          /\ received[k].status_code = 200
          /\ "total_count" \notin DOMAIN received[k].data

\* C9: when the responses lack total_count, the call goes on fetching while
\* items arrive and max_results is not reached: if it has returned with fewer
\* than max_results items, the last page it received was an empty one.
C9_EmptyPageEndsWithoutTotal ==
    (HasReturned /\ AllLackTotal /\ Len(outcome.value) < max_results) =>
        Len(OkItems(Last(received))) = 0

(* ----------------------------------------------------------------- C10 *)

\* The history starts with a request and requests and 2-unit delays alternate.
Alternates ==
    \A i \in 1..Len(trace) :
        IF i % 2 = 1 THEN trace[i].op = "get"
        ELSE trace[i].op = "sleep" /\ trace[i].secs = 2

\* After a delay the loop test passes: the next request is issued.
DelayIsFollowedByRequest ==
    (pc = "while" /\ trace # <<>>) =>
        Last(trace).op = "sleep" /\ Len(results) < max_results

\* C10 as stated: requests and delays alternate, every delay is followed by a
\* request, and on every exit the number of delays is the number of requests
\* minus one.
C10_DelaysAreRequestsMinusOne ==
    /\ Alternates
    /\ DelayIsFollowedByRequest
    /\ (IsExit => NumDelays = NumRequests - 1)

\* C10 (amended): requests and delays alternate, every delay is followed by a
\* request, and on every exit that follows at least one request the number of
\* delays is the number of requests minus one and the last event is a
\* request; an exit without any request has no delay either.
C10_DelaysOnlyBetweenRequests ==
    /\ Alternates
    /\ DelayIsFollowedByRequest
    /\ (IsExit /\ NumRequests >= 1 =>
           NumDelays = NumRequests - 1 /\ Last(trace).op = "get")
    /\ (IsExit /\ NumRequests = 0 => NumDelays = 0)

\* Three requests, two delays, then the exit.
C10_Witness ==
    /\ IsExit
    /\ NumRequests = 3
    /\ NumDelays = 2

(* ----------------------------------------------------------------- C11 *)

\* C11: when the call has ended on a 403 or 422 response, it has returned
\* fewer items than max_results.
C11_EarlyEndIsBelowLimit ==
    (LastStatusIn({403, 422}) /\ HasReturned) =>
        Len(outcome.value) < max_results

\* Two pages were accumulated, the third request was throttled.
C11_Witness ==
    /\ Len(received) = 3
    /\ received[3].status_code = 403
    /\ HasReturned
    /\ Len(outcome.value) = 2 * per_page
    /\ max_results = 2 * per_page + per_page \div 2

(* ----------------------------------------------------------------- C12 *)

\* The requests issued so far, in order.
RequestsIssued == SelectSeq(trace, IsGet)

\* C12: the i-th request asks for page i of /search/code with the query of
\* the call and per_page = 100, so pages 1..k are asked for in order, each
\* once; the cursor is 1 before the first request, equals the number of
\* requests while a request is outstanding and after the call has ended, and
\* is one more after a page that lets the loop continue.
C12_PagesInOrderOnce ==
    /\ \A i \in 1..Len(RequestsIssued) :
          /\ RequestsIssued[i].page = i
          /\ RequestsIssued[i].q = query
          /\ RequestsIssued[i].per_page = 100
          /\ RequestsIssued[i].url = "/search/code"
    /\ (pc \in {"while", "sleep"} => page = NumRequests + 1)
    /\ (pc = "get" => page = NumRequests)
    /\ (IsExit => page = IF NumRequests = 0 THEN 1 ELSE NumRequests)

\* Pages 1, 2 and 3 have been asked for and the call has ended.
C12_Witness ==
    /\ IsExit
    /\ Len(RequestsIssued) = 3
    /\ RequestsIssued[3].page = 3
    /\ page = 3

(* ----------------------------------------------------------------- C13 *)

\* C13: for max_results > 0, whatever the service answers: every response
\* that lets the loop continue has added at least one item, at most
\* max_results requests are issued, and the response to the max_results-th
\* request ends the call.
C13_AtMostMaxResultsRequests ==
    max_results > 0 =>
        /\ (~IsExit => Len(results) >= Len(received))
        /\ NumRequests <= max_results
        /\ (Len(received) = max_results => IsExit)

\* max_results = 3 reached by three pages of one item each: the bound is met.
C13_Witness ==
    /\ max_results = 3
    /\ NumRequests = 3
    /\ HasReturned
    /\ Len(outcome.value) = 3

(* ----------------------------------------------------------------- C14 *)

\* C14: in list_forks every delay is followed by another page request (after
\* a delay the loop test passes), so on every exit that follows a request
\* the number of delays is the number of requests minus one.
C14_ForksDelaysOnlyBetweenRequests ==
    /\ ((forks_pc = "while" /\ forks_trace # <<>>) => Len(forks) < max_forks)
    /\ ((forks_pc = "done" /\ NumForksRequests >= 1) =>
           NumForksDelays = NumForksRequests - 1)

====
